---- MODULE Spec2Model ----
\* Model of ccc.py, the Cardiomatics console client: the paginated signal
\* lister (APIService.get_list_signals_batches and its auth-handling wrapper)
\* and the three CLI handlers handle_list, handle_upload and handle_download.
\* One run of the tool is one behaviour: Init picks the sub-command and its
\* arguments, every action is one blocking step of the single control thread,
\* and the remote servers and the local disk are the nondeterministic inputs.
EXTENDS Integers, Sequences, FiniteSets, TLC

\* ---------------------------------------------------------------- bounds
\* Largest page count the server reports in the x-total-pages header of page 1.
MaxPages == 3
\* Largest number of signals the server hands out over all pages of one run.
MaxSignals == 2
\* Largest number of get_local_filename calls followed under FilenameSpec.
MaxCalls == 3

\* ------------------------------------------------------ program constants
INVALUD_TOKEN_MESSAGE == "Invalid token"
LIST_ACTION == "list"
UPLOAD_ACTION == "upload"
DOWNLOAD_ACTION == "download"

\* status not in ['Warning', 'Done']
READY_STATUSES_WithPending == {"Warning", "Done", "Pending"}
READY_STATUSES_DoneOnly == {"Done"}
READY_STATUSES == {"Warning", "Done"}

\* ------------------------------------------------------------ environment
\* Status values a signal can carry (an open enum: the ready ones and another).
SignalStatuses == {"Warning", "Done", "Pending"}
\* HTTP status codes the servers answer with.
PageStatuses == {200, 401, 403, 500}
CreateStatuses == {201, 401, 500}
PrintoutStatuses == {200, 201, 401, 403, 404, 500}
\* Outcomes of writing the streamed report to the destination file.
WriteResults == {"ok", "ENOSPC", "EIO"}
\* Values of args.new: handle_list passes None, handle_download passes a bool.
NewValues == {"None", "False", "True"}
\* Upload targets of a creation response: files[0].url and files[0].post_fields.
UploadUrls == {1, 2}
PostFields == {1, 2}
\* Values of args.access_token and of args.file_path (the open file handle).
Tokens == {"TOKEN_A", "TOKEN_B"}
FileHandles == {1, 2}

\* The x-total-pages header is a string of digits; int() parses it.
Digits == <<"0", "1", "2", "3", "4", "5", "6", "7", "8", "9">>
HeaderValues == {Digits[n + 1] : n \in 0..MaxPages}
\* A later page may report a count that has grown past the one of page 1.
LaterHeaderValues == {Digits[n + 1] : n \in 0..MaxPages + 1}
int(s) == (CHOOSE i \in 1..Len(Digits) : Digits[i] = s) - 1

VARIABLES
    handler,                \* args.action
    new,                    \* the new argument handed to the lister
    access_token,           \* args.access_token, kept in APIService._access_token
    file_path,              \* args.file_path of upload: the open file handle
    now,                    \* the reading datetime.now() returns
    pc,                     \* position of the control thread
    gen_pc,                 \* position of the get_list_signals_batches generator
    last_page,              \* generator local: header value read on page 1
    page,                   \* generator local: page of the last request
    signals_batch,          \* the batch the handler is iterating over
    idx,                    \* position of the handler inside signals_batch
    signals,                \* handle_list: accumulated signals
    downloaded_reports,     \* handle_download
    not_downloaded_reports, \* handle_download
    response,               \* handle_download: printout descriptor
    local_file_name,        \* handle_download: result of get_local_filename
    response_dict,          \* handle_upload: the creation response
    stdout,                 \* what print() has written
    exit_status,            \* "running", "zero" or "nonzero"
    uncaught,               \* exception that left the handler, or "none"
    written,                \* ids of the signals whose report file is complete
    requests,               \* history: every HTTP request with its response status
    yielded,                \* history: pages whose batch the lister yielded
    batch_sizes,            \* history: number of signals of each yielded batch
    arrival,                \* history: signals in the order the handler received them
    first_total_pages,      \* history: x-total-pages of the page-1 response
    later_headers,          \* history: how later x-total-pages values compared
    last_write,             \* history: result of the last write to disk
    filename_calls          \* history: get_local_filename calls with their results

vars == <<handler, new, access_token, file_path, now, pc, gen_pc, last_page, page, signals_batch, idx, signals,
          downloaded_reports, not_downloaded_reports, response, response_dict,
          stdout, exit_status, uncaught, written, requests, yielded, batch_sizes,
          arrival, first_total_pages, later_headers, last_write, local_file_name,
          filename_calls>>

listerVars == <<gen_pc, last_page, page, yielded, batch_sizes, first_total_pages,
                later_headers>>
batchVars == <<signals_batch, idx, arrival>>
downloadVars == <<downloaded_reports, not_downloaded_reports, response, written, last_write,
                  local_file_name, filename_calls>>
argVars == <<handler, new, access_token, file_path, now>>

\* ---------------------------------------------------------------- helpers
Last(s) == s[Len(s)]

\* One printed line; print_signals prints one table whose rows are the signals.
Line(text) == [text |-> text, count |-> 0, rows |-> <<>>]
CountLine(text, n) == [text |-> text, count |-> n, rows |-> <<>>]
print_signals(sigs) == [text |-> "table", count |-> 0, rows |-> sigs]

\* The calls made through self._api_client, the session whose Private-Token
\* header __init__ sets; get_file and upload_file_to_object_storage call
\* requests.get and requests.post, which carry no such header.
SessionKinds == {"list", "create", "printout"}
PrivateTokenUnset(kind) == "none"
PrivateToken(kind) == IF kind \in SessionKinds THEN access_token ELSE "none"

NoBody == [file |-> 0, fields |-> 0]

\* One HTTP request as the server saw it, with the status it answered.
Request(kind, arg, newParam, status) ==
    [kind |-> kind, arg |-> arg, new |-> newParam, status |-> status,
     token |-> PrivateToken(kind), body |-> NoBody]

\* requests.post(url, files={'file': file}, data=post_fields, stream=True)
UploadRequest(url, file, post_fields, status) ==
    [Request("upload", url, "absent", status)
        EXCEPT !.body = [file |-> file, fields |-> post_fields]]

\* handle_download hands args.new to get_list_signals_batches_auth_handled,
\* which hands it to get_list_signals_batches, which hands it to every
\* _get_signals_page call.
ForwardNewDropped(n) == "None"
ForwardNew(n) == n

\* params['new'] is set only when new is truthy.
NewParam(n) == IF n = "True" THEN "True" ELSE "absent"

NoResponse == [url |-> 0, name |-> <<>>]
NoTarget == [files |-> <<>>]

\* Number of signals of the arrival stream the download loop has finished with.
Processed == Len(arrival) - Len(signals_batch) + (idx - 1)

\* ------------------------------------------- status-code to outcome maps
\* APIService._get_signals_page: the branch taken on response.status_code.
GetSignalsPageOutcome(status) ==
    IF status = 401 THEN "AccessDeniedError"
    ELSE IF status = 200 THEN "ok"
    ELSE "NotImplementedError"

\* APIService.create_new_signal.
CreateNewSignalOutcome(status) ==
    IF status = 401 THEN "AccessDeniedError"
    ELSE IF status = 201 THEN "ok"
    ELSE "NotImplementedError"

\* APIService.request_printout.
RequestPrintoutOutcomeAny4xxNotVisited(status) ==
    IF status = 401 THEN "AccessDeniedError"
    ELSE IF status >= 400 /\ status < 500 THEN "NotVisitedBeforeViaPortalError"
    ELSE IF status = 200 THEN "ok"
    ELSE "NotImplementedError"
RequestPrintoutOutcome(status) ==
    IF status = 401 THEN "AccessDeniedError"
    ELSE IF status = 403 THEN "NotVisitedBeforeViaPortalError"
    ELSE IF status = 200 THEN "ok"
    ELSE "NotImplementedError"

\* APIService.get_file: response.ok or NotImplementedError.
GetFileOutcomeIgnoresStatus(ok) == "ok"
GetFileOutcome(ok) == IF ok THEN "ok" ELSE "NotImplementedError"

\* APIService.upload_file_to_object_storage.
UploadOutcomeIgnoresStatus(ok) == "ok"
UploadOutcome(ok) == IF ok THEN "ok" ELSE "ObjectStorageUploadError"

\* download_file_with_progress_bar: the except OSError clause.
WriteOutcomeIgnoresErrors(result) == "ok"
WriteOutcomeReraise(result) ==
    IF result = "ok" THEN "ok" ELSE "OSError"
WriteOutcome(result) ==
    IF result = "ok" THEN "ok"
    ELSE IF result = "ENOSPC" THEN "DiskFullError"
    ELSE "OSError"

\* Exceptions each try block catches.
ListerCatchesNothing == {}
ListerCatchesBroad == {"AccessDeniedError", "NotImplementedError"}
ListerCatches == {"AccessDeniedError"}
PrintoutCatchesNothing == {}
PrintoutCatches == {"NotVisitedBeforeViaPortalError"}
WriteCatches == {"DiskFullError"}
CreateCatches == {"AccessDeniedError"}
UploadCatches == {"ObjectStorageUploadError"}

\* range(2, int(last_page) + 1): the exclusive stop of the page loop.
RangeStopOneMore(lp) == int(lp) + 2
RangeStopOffByOne(lp) == int(lp)
RangeStop(lp) == int(lp) + 1

\* "_, data = self._get_signals_page(page, new=new)": the header of a later
\* page is dropped, last_page keeps the value read on page 1.
KeepLastPageReread(lp, header) == header
KeepLastPage(lp, header) == lp

\* handle_list: for signal in signals_batch: signals.append(signal)
ExtendSignalsReplace(sigs, batch) == batch
ExtendSignals(sigs, batch) == sigs \o batch

\* handle_upload: response_dict.get('files')[0]
FirstFileLast(rd) == rd.files[Len(rd.files)]
FirstFile(rd) == rd.files[1]

\* list.append(signal)
AppendReportPrepend(reports, signal) == <<signal>> \o reports
AppendReport(reports, signal) == Append(reports, signal)

\* The three closing ifs of handle_download.
FinalReportNoSignalsWhenNoneDownloaded(downloaded, not_downloaded) ==
    (IF downloaded # <<>>
     THEN <<CountLine("Downloaded signal reports", Len(downloaded)),
            print_signals(downloaded)>>
     ELSE <<>>)
    \o (IF not_downloaded # <<>>
        THEN <<Line("Not downloaded reports (due error)"),
               print_signals(not_downloaded)>>
        ELSE <<>>)
    \o (IF downloaded = <<>>
        THEN <<Line("No signals available")>>
        ELSE <<>>)
FinalReport(downloaded, not_downloaded) ==
    (IF downloaded # <<>>
     THEN <<CountLine("Downloaded signal reports", Len(downloaded)),
            print_signals(downloaded)>>
     ELSE <<>>)
    \o (IF not_downloaded # <<>>
        THEN <<Line("Not downloaded reports (due error)"),
               print_signals(not_downloaded)>>
        ELSE <<>>)
    \o (IF downloaded \o not_downloaded = <<>>
        THEN <<Line("No signals available")>>
        ELSE <<>>)

\* Page bodies the server can answer with once `have` signals were handed out:
\* fresh ids in arrival order, any status.
Bodies(have) ==
    LET cap == MaxSignals - have
    IN  UNION {{[i \in 1..n |-> [id |-> have + i, status |-> sts[i]]] :
                    sts \in [1..n -> SignalStatuses]} : n \in 0..cap}

\* ------------------------------------------------- get_local_filename
\* File names are sequences of characters.
\* Index of the last occurrence of character c in s, 0 when there is none
\* (str.rfind, counted from 1).
rfind(s, c) ==
    LET hits == {i \in 1..Len(s) : s[i] = c}
    IN  IF hits = {} THEN 0 ELSE CHOOSE i \in hits : \A j \in hits : j <= i

\* Path(p).name: the final path component.
PathName(p) == SubSeq(p, rfind(p, "/") + 1, Len(p))

\* Path(p).suffix: from the last dot of the name on, unless that dot is the
\* first or the last character of the name.
HasSuffix(name) == 1 < rfind(name, ".") /\ rfind(name, ".") < Len(name)
PathSuffixFirstDot(p) ==
    LET name == PathName(p)
        dots == {i \in 2..Len(name) - 1 : name[i] = "."}
    IN  IF dots = {} THEN <<>>
        ELSE SubSeq(name, CHOOSE i \in dots : \A j \in dots : i <= j, Len(name))
PathSuffix(p) ==
    LET name == PathName(p)
    IN  IF HasSuffix(name) THEN SubSeq(name, rfind(name, "."), Len(name)) ELSE <<>>

\* Path(p).stem: the name without its suffix.
PathStem(p) ==
    LET name == PathName(p)
    IN  IF HasSuffix(name) THEN SubSeq(name, 1, rfind(name, ".") - 1) ELSE name

\* n written with w decimal digits, zero padded.
RECURSIVE Pad(_, _)
Pad(n, w) == IF w = 0 THEN <<>> ELSE Pad(n \div 10, w - 1) \o <<Digits[(n % 10) + 1]>>

\* datetime.isoformat(): YYYY-MM-DDTHH:MM:SS, followed by .ffffff when the
\* microsecond is not zero.
isoformat(t) ==
    Pad(t.year, 4) \o <<"-">> \o Pad(t.month, 2) \o <<"-">> \o Pad(t.day, 2)
    \o <<"T">> \o Pad(t.hour, 2) \o <<":">> \o Pad(t.minute, 2)
    \o <<":">> \o Pad(t.second, 2)
    \o (IF t.microsecond # 0 THEN <<".">> \o Pad(t.microsecond, 6) ELSE <<>>)

\* f'{file_without_extension}-{now}{file_extension}'
get_local_filename_ExtensionFirst(base_file_name, t) ==
    PathStem(base_file_name) \o PathSuffix(base_file_name) \o <<"-">> \o isoformat(t)
get_local_filename(base_file_name, t) ==
    PathStem(base_file_name) \o <<"-">> \o isoformat(t) \o PathSuffix(base_file_name)

FilenameCall(name, t, result) == [name |-> name, now |-> t, result |-> result]

\* Clock readings: the frozen time of the tests, and a later date with a
\* microsecond part.
FrozenClock == [year |-> 2023, month |-> 1, day |-> 1, hour |-> 0, minute |-> 0,
                second |-> 0, microsecond |-> 0]
LaterClock == [year |-> 2024, month |-> 12, day |-> 31, hour |-> 23, minute |-> 59,
               second |-> 58, microsecond |-> 4070]
Clocks == {FrozenClock, LaterClock}

\* Base names a printout descriptor can carry.
NameTestPdf == <<"t", "e", "s", "t", ".", "p", "d", "f">>
NameTest == <<"t", "e", "s", "t">>
NameTarGz == <<"a", ".", "t", "a", "r", ".", "g", "z">>
NameHidden == <<".", "e", "n", "v">>
NameInDir == <<"d", "/", "x", ".", "p", "d", "f">>
Names == {NameTestPdf, NameTest, NameTarGz, NameHidden, NameInDir}

\* The name the server gives the report of signal id under Spec.
ReportName(id) == <<"r", Digits[id + 1], ".", "p", "d", "f">>

\* ------------------------------------------------------- process endings
\* exit(1) after printing msg.
ExitWithFallsThrough(msg) ==
    /\ stdout' = Append(stdout, Line(msg))
    /\ pc' = "report"
    /\ UNCHANGED <<exit_status, uncaught>>
ExitWith(msg) ==
    /\ stdout' = Append(stdout, Line(msg))
    /\ exit_status' = "nonzero"
    /\ pc' = "exited"
    /\ UNCHANGED uncaught

\* An exception no try block catches: traceback, interpreter exit status 1.
Crash(exc) ==
    /\ uncaught' = exc
    /\ exit_status' = "nonzero"
    /\ pc' = "exited"
    /\ UNCHANGED stdout

\* ------------------------------------------------------------------ Init
Init ==
    /\ handler \in {LIST_ACTION, UPLOAD_ACTION, DOWNLOAD_ACTION}
    /\ new \in NewValues
    /\ handler = LIST_ACTION => new = "None"
    /\ handler = UPLOAD_ACTION => new = "None"
    /\ handler = DOWNLOAD_ACTION => new \in {"False", "True"}
    /\ access_token \in Tokens
    /\ file_path \in FileHandles \cup {0}
    /\ (handler = UPLOAD_ACTION) <=> (file_path \in FileHandles)
    /\ now = FrozenClock
    /\ pc = IF handler = UPLOAD_ACTION THEN "create" ELSE "next_batch"
    /\ gen_pc = "start"
    /\ last_page = "0"
    /\ page = 0
    /\ signals_batch = <<>>
    /\ idx = 1
    /\ signals = <<>>
    /\ downloaded_reports = <<>>
    /\ not_downloaded_reports = <<>>
    /\ response = NoResponse
    /\ response_dict = NoTarget
    /\ stdout = <<>>
    /\ exit_status = "running"
    /\ uncaught = "none"
    /\ written = <<>>
    /\ requests = <<>>
    /\ yielded = <<>>
    /\ batch_sizes = <<>>
    /\ arrival = <<>>
    /\ first_total_pages = "0"
    /\ later_headers = {}
    /\ last_write = "none"
    /\ local_file_name = <<>>
    /\ filename_calls = <<>>

\* ------------------------------------------------- the paginated lister
\* How a later page's x-total-pages compares with the one of page 1.
Relation(header) ==
    IF int(header) < int(first_total_pages) THEN {"smaller"}
    ELSE IF int(header) > int(first_total_pages) THEN {"larger"}
    ELSE {}

\* Where the handler goes once next(iterator) has handed it a batch.
AfterBatch(data) ==
    IF handler = LIST_ACTION THEN "collect"
    ELSE IF data = <<>> THEN "next_batch" ELSE "for_signal"

\* One next(iterator) of get_list_signals_batches_auth_handled that makes the
\* generator call _get_signals_page(p): the request, the status dispatch, then
\* either the yield of the body or the exception and what the wrapper does
\* with it.
GetSignalsPage(p, first) ==
    \E status \in PageStatuses :
        LET outcome == GetSignalsPageOutcome(status)
            req == Request("list", p, NewParam(ForwardNew(new)), status)
        IN  /\ requests' = Append(requests, req)
            /\ IF outcome = "ok"
               THEN \E header \in (IF first THEN HeaderValues ELSE LaterHeaderValues),
                       data \in Bodies(Len(arrival)) :
                      /\ gen_pc' = "yielded"
                      /\ page' = p
                      /\ last_page' = IF first THEN header
                                      ELSE KeepLastPage(last_page, header)
                      /\ first_total_pages' = IF first THEN header
                                              ELSE first_total_pages
                      /\ later_headers' = IF first THEN later_headers
                                          ELSE later_headers \cup Relation(header)
                      /\ yielded' = Append(yielded, p)
                      /\ batch_sizes' = Append(batch_sizes, Len(data))
                      /\ signals_batch' = data
                      /\ arrival' = arrival \o data
                      /\ idx' = 1
                      /\ pc' = AfterBatch(data)
                      /\ UNCHANGED <<stdout, exit_status, uncaught>>
               ELSE /\ gen_pc' = "raised"
                    /\ IF outcome \in ListerCatches
                       THEN ExitWith(INVALUD_TOKEN_MESSAGE)
                       ELSE Crash(outcome)
                    /\ UNCHANGED <<last_page, page, yielded, batch_sizes,
                                   first_total_pages, later_headers, batchVars>>
            /\ UNCHANGED <<argVars, signals, downloadVars, response_dict>>

\* First next(iterator): the generator starts and requests page 1.
NextBatchFirstPage ==
    /\ pc = "next_batch"
    /\ gen_pc = "start"
    /\ GetSignalsPage(1, TRUE)

\* A later next(iterator): the generator resumes after its yield and the for
\* loop over range(2, int(last_page) + 1) has another page.
NextBatchLaterPage ==
    /\ pc = "next_batch"
    /\ gen_pc = "yielded"
    /\ page + 1 >= 2
    /\ page + 1 < RangeStop(last_page)
    /\ GetSignalsPage(page + 1, FALSE)

\* The range is exhausted: the generator returns, next() raises StopIteration,
\* the wrapper breaks and the handler's for loop ends.
NextBatchStop ==
    /\ pc = "next_batch"
    /\ gen_pc = "yielded"
    /\ ~(page + 1 < RangeStop(last_page))
    /\ gen_pc' = "done"
    /\ pc' = "report"
    /\ UNCHANGED <<argVars, last_page, page, yielded, batch_sizes,
                   first_total_pages, later_headers, batchVars, signals, downloadVars,
                   response_dict, stdout, exit_status, uncaught, requests>>

\* ------------------------------------------------------------ handle_list
\* for signal in signals_batch: signals.append(signal)
ListCollectBatch ==
    /\ handler = LIST_ACTION
    /\ pc = "collect"
    /\ signals' = ExtendSignals(signals, signals_batch)
    /\ idx' = Len(signals_batch) + 1
    /\ pc' = "next_batch"
    /\ UNCHANGED <<argVars, listerVars, signals_batch, arrival, downloadVars,
                   response_dict, stdout, exit_status, uncaught, requests>>

\* print('\nList of signals:'); PrintService.print_signals(signals)
ListReport ==
    /\ handler = LIST_ACTION
    /\ pc = "report"
    /\ stdout' = stdout \o <<Line("List of signals:"), print_signals(signals)>>
    /\ exit_status' = "zero"
    /\ pc' = "done"
    /\ UNCHANGED <<argVars, listerVars, batchVars, signals, downloadVars,
                   response_dict, uncaught, requests>>

\* -------------------------------------------------------- handle_download
\* The signal the inner for loop is at.
signal == signals_batch[idx]

\* continue, or the end of the loop body: on to the next signal of the batch,
\* or back to next(iterator) when the batch is used up.
NextSignalLeavesBatch ==
    /\ idx' = idx + 1
    /\ pc' = "next_batch"
NextSignal ==
    /\ idx' = idx + 1
    /\ pc' = IF idx + 1 > Len(signals_batch) THEN "next_batch" ELSE "for_signal"

\* status not in ['Warning', 'Done']: not_downloaded_reports.append; continue
SkipNotReady ==
    /\ handler = DOWNLOAD_ACTION
    /\ pc = "for_signal"
    /\ signal.status \notin READY_STATUSES
    /\ not_downloaded_reports' = AppendReport(not_downloaded_reports, signal)
    /\ NextSignal
    /\ UNCHANGED <<argVars, listerVars, signals_batch, arrival, signals,
                   downloaded_reports, response, written, last_write,
                   local_file_name, filename_calls,
                   response_dict, stdout, exit_status, uncaught, requests>>

\* api_service.request_printout(signal.get('id')) inside its try block.
RequestPrintout ==
    /\ handler = DOWNLOAD_ACTION
    /\ pc = "for_signal"
    /\ signal.status \in READY_STATUSES
    /\ \E status \in PrintoutStatuses :
        LET outcome == RequestPrintoutOutcome(status)
        IN  /\ requests' = Append(requests,
                                  Request("printout", signal.id, "absent", status))
            /\ IF outcome = "ok"
               THEN /\ response' = [url |-> signal.id, name |-> ReportName(signal.id)]
                    /\ local_file_name' = get_local_filename(response'.name, now)
                    /\ filename_calls' = Append(filename_calls,
                          FilenameCall(response'.name, now, local_file_name'))
                    /\ pc' = "get_file"
                    /\ UNCHANGED <<idx, not_downloaded_reports, stdout,
                                   exit_status, uncaught>>
               ELSE IF outcome \in PrintoutCatches
               THEN /\ not_downloaded_reports' =
                          AppendReport(not_downloaded_reports, signal)
                    /\ stdout' = Append(stdout, Line("Not visited by app before"))
                    /\ NextSignal
                    /\ UNCHANGED <<response, local_file_name, filename_calls,
                                   exit_status, uncaught>>
               ELSE /\ Crash(outcome)
                    /\ UNCHANGED <<idx, response, local_file_name, filename_calls,
                                   not_downloaded_reports>>
    /\ UNCHANGED <<argVars, listerVars, signals_batch, arrival, signals,
                   downloaded_reports, written, last_write, response_dict>>

\* download_file_with_progress_bar, first half: api_service.get_file(url).
GetFile ==
    /\ handler = DOWNLOAD_ACTION
    /\ pc = "get_file"
    /\ \E ok \in BOOLEAN :
        LET outcome == GetFileOutcome(ok)
        IN  /\ requests' = Append(requests,
                                  Request("get_file", response.url, "absent",
                                          IF ok THEN 200 ELSE 500))
            /\ IF outcome = "ok"
               THEN /\ pc' = "write"
                    /\ UNCHANGED <<stdout, exit_status, uncaught>>
               ELSE Crash(outcome)
    /\ UNCHANGED <<argVars, listerVars, batchVars, signals, downloadVars,
                   response_dict>>

\* download_file_with_progress_bar, second half: the chunks are written to the
\* destination file; then handle_download's except DiskFullError clause and
\* downloaded_reports.append(signal).
WriteFile ==
    /\ handler = DOWNLOAD_ACTION
    /\ pc = "write"
    /\ \E result \in WriteResults :
        LET outcome == WriteOutcome(result)
        IN  /\ last_write' = result
            /\ IF outcome = "ok"
               THEN /\ written' = Append(written, signal.id)
                    /\ downloaded_reports' = AppendReport(downloaded_reports, signal)
                    /\ NextSignal
                    /\ UNCHANGED <<stdout, exit_status, uncaught>>
               ELSE /\ IF outcome \in WriteCatches
                       THEN ExitWith("Disk full, can't download")
                       ELSE Crash(outcome)
                    /\ UNCHANGED <<idx, written, downloaded_reports>>
    /\ UNCHANGED <<argVars, listerVars, signals_batch, arrival, signals,
                   not_downloaded_reports, response, local_file_name,
                   filename_calls, response_dict, requests>>

\* The closing report of handle_download, after the last batch.
DownloadReport ==
    /\ handler = DOWNLOAD_ACTION
    /\ pc = "report"
    /\ stdout' = stdout \o FinalReport(downloaded_reports, not_downloaded_reports)
    /\ exit_status' = "zero"
    /\ pc' = "done"
    /\ UNCHANGED <<argVars, listerVars, batchVars, signals, downloadVars,
                   response_dict, uncaught, requests>>

\* ---------------------------------------------------------- handle_upload
\* The files list of a creation response: one upload target per declared file
\* name, possibly followed by another.
FileDescriptors == [url : UploadUrls, post_fields : PostFields]
CreatedFiles == {<<f>> : f \in FileDescriptors}
                    \cup {<<f, g>> : f \in FileDescriptors, g \in FileDescriptors}

\* api_service.create_new_signal(args.name, file_name) inside its try block.
CreateNewSignal ==
    /\ handler = UPLOAD_ACTION
    /\ pc = "create"
    /\ \E status \in CreateStatuses :
        LET outcome == CreateNewSignalOutcome(status)
        IN  /\ requests' = Append(requests, Request("create", 0, "absent", status))
            /\ IF outcome = "ok"
               THEN \E files \in CreatedFiles :
                      /\ response_dict' = [files |-> files]
                      /\ stdout' = Append(stdout,
                            Line("Sucessfully created object on Cardiomatics API"))
                      /\ pc' = "upload"
                      /\ UNCHANGED <<exit_status, uncaught>>
               ELSE /\ IF outcome \in CreateCatches
                       THEN ExitWith(INVALUD_TOKEN_MESSAGE)
                       ELSE Crash(outcome)
                    /\ UNCHANGED response_dict
    /\ UNCHANGED <<argVars, listerVars, batchVars, signals, downloadVars>>

\* print('Uploading file to object store...'), the multipart upload inside its
\* try block, then print('Upload successful!').
UploadFileToObjectStorage ==
    /\ handler = UPLOAD_ACTION
    /\ pc = "upload"
    /\ \E ok \in BOOLEAN :
        LET outcome == UploadOutcome(ok)
            started == Append(stdout, Line("Uploading file to object store..."))
            post_fields == FirstFile(response_dict).post_fields
            object_storage_url == FirstFile(response_dict).url
        IN  /\ requests' = Append(requests,
                                  UploadRequest(object_storage_url, file_path,
                                                post_fields,
                                                IF ok THEN 200 ELSE 500))
            /\ IF outcome = "ok"
               THEN /\ stdout' = Append(started, Line("Upload successful!"))
                    /\ exit_status' = "zero"
                    /\ pc' = "done"
                    /\ UNCHANGED uncaught
               ELSE IF outcome \in UploadCatches
               THEN /\ stdout' = Append(started, Line("Object store error"))
                    /\ exit_status' = "nonzero"
                    /\ pc' = "exited"
                    /\ UNCHANGED uncaught
               ELSE /\ uncaught' = outcome
                    /\ stdout' = started
                    /\ exit_status' = "nonzero"
                    /\ pc' = "exited"
    /\ UNCHANGED <<argVars, listerVars, batchVars, signals, downloadVars,
                   response_dict>>

\* ------------------------------------------------------------------ Next
Next ==
    \/ NextBatchFirstPage
    \/ NextBatchLaterPage
    \/ NextBatchStop
    \/ ListCollectBatch
    \/ ListReport
    \/ SkipNotReady
    \/ RequestPrintout
    \/ GetFile
    \/ WriteFile
    \/ DownloadReport
    \/ CreateNewSignal
    \/ UploadFileToObjectStorage

Spec == Init /\ [][Next]_vars

\* Every step of the single control thread is eventually taken.
FairSpec == Spec /\ WF_vars(Next)

\* ------------------------------------------------ handle_download on its own
\* main() dispatched to handle_download. The token and the --new flag are
\* only passed on to the requests and enter no condition of the handler, so one
\* value of each stands for the run; Spec varies them.
DownloadInit ==
    /\ Init
    /\ handler = DOWNLOAD_ACTION
    /\ new = "False"
    /\ access_token = "TOKEN_A"

DownloadNext ==
    \/ NextBatchFirstPage
    \/ NextBatchLaterPage
    \/ NextBatchStop
    \/ SkipNotReady
    \/ RequestPrintout
    \/ GetFile
    \/ WriteFile
    \/ DownloadReport

\* Every blocking call of the single control thread returns, so the step that
\* follows it is eventually taken.
DownloadFairSpec == DownloadInit /\ [][DownloadNext]_vars /\ WF_vars(DownloadNext)

\* ------------------------------------------- get_local_filename on its own
\* handle_download has a printout descriptor in hand and derives the local
\* file name from its name; the descriptor's name and the clock reading vary
\* between calls.
FilenameInit ==
    /\ handler = DOWNLOAD_ACTION
    /\ new = FALSE
    /\ access_token \in Tokens
    /\ file_path = 0
    /\ now \in Clocks
    /\ pc = "get_local_filename"
    /\ gen_pc = "yielded"
    /\ last_page = 1
    /\ page = 1
    /\ signals_batch = <<>>
    /\ idx = 1
    /\ signals = <<>>
    /\ downloaded_reports = <<>>
    /\ not_downloaded_reports = <<>>
    /\ \E name \in Names : response = [url |-> 1, name |-> name]
    /\ response_dict = NoTarget
    /\ stdout = <<>>
    /\ exit_status = "running"
    /\ uncaught = "none"
    /\ written = <<>>
    /\ requests = <<>>
    /\ yielded = <<>>
    /\ batch_sizes = <<>>
    /\ arrival = <<>>
    /\ first_total_pages = "0"
    /\ later_headers = {}
    /\ last_write = "none"
    /\ local_file_name = <<>>
    /\ filename_calls = <<>>

filenameFrame == <<handler, new, access_token, file_path, pc, gen_pc, last_page, page,
                   signals_batch, idx, signals, downloaded_reports,
                   not_downloaded_reports, response_dict, stdout, exit_status,
                   uncaught, written, requests, yielded, batch_sizes, arrival,
                   first_total_pages, later_headers, last_write>>

\* local_file_name = get_local_filename(response['name'])
GetLocalFilename ==
    /\ pc = "get_local_filename"
    /\ Len(filename_calls) < MaxCalls
    /\ local_file_name' = get_local_filename(response.name, now)
    /\ filename_calls' = Append(filename_calls,
                                FilenameCall(response.name, now, local_file_name'))
    /\ UNCHANGED <<filenameFrame, response, now>>

\* datetime.now() gives another reading.
ClockChange ==
    /\ pc = "get_local_filename"
    /\ \E t \in Clocks \ {now} : now' = t
    /\ UNCHANGED <<filenameFrame, response, local_file_name, filename_calls>>

\* The next printout descriptor carries another name.
NameChange ==
    /\ pc = "get_local_filename"
    /\ \E name \in Names \ {response.name} : response' = [response EXCEPT !.name = name]
    /\ UNCHANGED <<filenameFrame, now, local_file_name, filename_calls>>

FilenameNext == GetLocalFilename \/ ClockChange \/ NameChange

FilenameSpec == FilenameInit /\ [][FilenameNext]_vars

TypeOK ==
    /\ handler \in {LIST_ACTION, UPLOAD_ACTION, DOWNLOAD_ACTION}
    /\ new \in NewValues
    /\ access_token \in Tokens
    /\ exit_status \in {"running", "zero", "nonzero"}
    /\ (pc \in {"done", "exited"}) <=> (exit_status # "running")
    /\ idx \in 1..(Len(signals_batch) + 1)
    /\ Len(arrival) <= MaxSignals
    /\ now \in Clocks
    /\ Len(filename_calls) <= MaxSignals

\* ============================================================== properties
Range(s) == {s[i] : i \in DOMAIN s}
Upto(n) == [i \in 1..n |-> i]
AtLeastOne(n) == IF n < 1 THEN 1 ELSE n

\* The listing requests of the run, in the order they were issued.
ListRequests == SelectSeq(requests, LAMBDA r : r.kind = "list")
PagesRequested == [i \in 1..Len(ListRequests) |-> ListRequests[i].arg]

\* Number of requests of one kind issued for one signal id.
RequestCount(kind, id) ==
    Cardinality({i \in 1..Len(requests) :
                    requests[i].kind = kind /\ requests[i].arg = id})

Ids(reports) == {reports[i].id : i \in DOMAIN reports}

RECURSIVE IsSubseq(_, _)
\* s can be obtained from t by deleting elements.
IsSubseq(s, t) ==
    IF s = <<>> THEN TRUE
    ELSE IF t = <<>> THEN FALSE
    ELSE IF Head(s) = Head(t) THEN IsSubseq(Tail(s), Tail(t))
    ELSE IsSubseq(s, Tail(t))

\* The lister ran to its end: every page response was 200.
ListerFinished == gen_pc = "done"

\* ---- C1
\* C1 as stated: when the page-1 response reports k pages and every page
\* answers 200, the lister issues exactly k page requests and yields exactly k
\* batches, for pages 1..k in order.
C1_AsStated ==
    ListerFinished =>
        /\ PagesRequested = Upto(int(first_total_pages))
        /\ yielded = Upto(int(first_total_pages))

\* C1 (amended): with k the page count of the page-1 response and every page
\* answering 200, the lister issues exactly max(k, 1) page requests and yields
\* exactly max(k, 1) batches, for pages 1..max(k, 1) in order: k of each when
\* k >= 1, and the one page-1 request and batch when k = 0.
C1_PageCount ==
    ListerFinished =>
        /\ PagesRequested = Upto(AtLeastOne(int(first_total_pages)))
        /\ yielded = Upto(AtLeastOne(int(first_total_pages)))

C1_Witness ==
    /\ ListerFinished
    /\ int(first_total_pages) = 3
    /\ Len(ListRequests) = 3
    /\ Len(yielded) = 3

\* ---- C2
\* C2 as stated: whatever x-total-pages the later pages report, the pages
\* requested are exactly 1..last_page of the first response, in order.
C2_AsStated ==
    (ListerFinished /\ Len(ListRequests) >= 1) =>
        \A p \in 1..MaxPages + 1 :
            (p \in Range(PagesRequested)) <=> (p <= int(first_total_pages))

\* C2 (amended): the pages requested are fixed by the x-total-pages value of
\* the page-1 response only: at every moment they are 1, 2, ... in order, never
\* beyond max(last_page, 1) of the first response, and exactly
\* 1..max(last_page, 1) once the lister has finished, whatever larger or
\* smaller value a later page response reported.
C2_FirstHeaderOnly ==
    (Len(ListRequests) >= 1 /\ ListRequests[1].status = 200) =>
        /\ PagesRequested = Upto(Len(ListRequests))
        /\ Len(ListRequests) <= AtLeastOne(int(first_total_pages))
        /\ ListerFinished =>
               Len(ListRequests) = AtLeastOne(int(first_total_pages))

C2_Witness ==
    /\ ListerFinished
    /\ later_headers = {"smaller", "larger"}
    /\ Len(ListRequests) = int(first_total_pages)

\* ---- C3
\* C3: when the page-1 listing response is 401, no batch is yielded, no second
\* page request is issued, and the handler (list or download) has printed the
\* invalid-token message and exited with a non-zero status.
C3_FirstPage401 ==
    (Len(ListRequests) >= 1 /\ ListRequests[1].status = 401) =>
        /\ yielded = <<>>
        /\ arrival = <<>>
        /\ requests = <<Request("list", 1, NewParam(new), 401)>>
        /\ stdout = <<Line(INVALUD_TOKEN_MESSAGE)>>
        /\ exit_status = "nonzero"
        /\ uncaught = "none"

C3_Witness ==
    /\ handler = DOWNLOAD_ACTION
    /\ Len(requests) = 1
    /\ requests[1].kind = "list"
    /\ requests[1].status = 401
    /\ pc = "exited"

\* ---- C4
\* C4: in handle_download, a signal whose status is neither "Warning" nor
\* "Done" never gets a printout request or a file fetch, and once the loop has
\* passed it, it is in the not-downloaded list.
C4_NotReadySkipped ==
    handler = DOWNLOAD_ACTION =>
        \A i \in 1..Len(arrival) :
            arrival[i].status \notin {"Warning", "Done"} =>
                /\ RequestCount("printout", arrival[i].id) = 0
                /\ RequestCount("get_file", arrival[i].id) = 0
                /\ arrival[i] \notin Range(downloaded_reports)
                /\ i <= Processed => arrival[i] \in Range(not_downloaded_reports)

C4_Witness ==
    /\ handler = DOWNLOAD_ACTION
    /\ Len(arrival) = 2
    /\ arrival[1].status = "Pending"
    /\ arrival[2].status = "Done"
    /\ not_downloaded_reports = <<arrival[1]>>
    /\ downloaded_reports = <<arrival[2]>>

\* ---- C5
\* C5: in handle_download, a 403 on the printout request of a signal puts that
\* signal into the not-downloaded list, no file fetch is issued for it, the
\* process does not terminate on it, and the loop moves on to the next signal
\* of the stream.
C5_NotVisitedSkipped ==
    handler = DOWNLOAD_ACTION =>
        \A i \in 1..Len(requests) :
            (requests[i].kind = "printout" /\ requests[i].status = 403) =>
                /\ requests[i].arg \in Ids(not_downloaded_reports)
                /\ requests[i].arg \notin Ids(downloaded_reports)
                /\ RequestCount("get_file", requests[i].arg) = 0
                /\ Processed >= requests[i].arg
                /\ i = Len(requests) =>
                       /\ uncaught = "none"
                       /\ exit_status # "nonzero"
                       /\ pc \in {"for_signal", "next_batch", "report", "done"}
                       /\ (pc = "for_signal" /\ Processed = requests[i].arg) =>
                              signal.id = requests[i].arg + 1

C5_Witness ==
    /\ handler = DOWNLOAD_ACTION
    /\ Len(requests) >= 3
    /\ \E i \in 1..Len(requests) :
          /\ requests[i].kind = "printout"
          /\ requests[i].status = 403
          /\ requests[i].arg = 1
          /\ i < Len(requests)
          /\ requests[i + 1].kind = "printout"
          /\ requests[i + 1].arg = 2
    /\ 2 \in Ids(downloaded_reports)

\* ---- C6
\* C6: when handle_download completes normally, exactly one printout request
\* was issued for each "Warning" or "Done" signal and none for any other; the
\* downloaded list holds exactly the ready signals whose printout answered 200
\* and whose file was written, the not-downloaded list exactly the remaining
\* signals, and the two lengths add up to the number of signals received.
C6_Accounting ==
    (handler = DOWNLOAD_ACTION /\ pc = "done") =>
        LET ready(s) == s.status \in {"Warning", "Done"}
            got(s) == /\ ready(s)
                      /\ \E i \in 1..Len(requests) :
                            /\ requests[i].kind = "printout"
                            /\ requests[i].arg = s.id
                            /\ requests[i].status = 200
                      /\ s.id \in Range(written)
        IN  /\ \A i \in 1..Len(arrival) :
                  RequestCount("printout", arrival[i].id) =
                      IF ready(arrival[i]) THEN 1 ELSE 0
            /\ Range(downloaded_reports) = {s \in Range(arrival) : got(s)}
            /\ Range(not_downloaded_reports) = {s \in Range(arrival) : ~got(s)}
            /\ Len(downloaded_reports) + Len(not_downloaded_reports) = Len(arrival)

C6_Witness ==
    /\ handler = DOWNLOAD_ACTION
    /\ pc = "done"
    /\ Len(arrival) = 2
    /\ arrival[1].status = "Warning"
    /\ arrival[2].status = "Pending"
    /\ Len(downloaded_reports) = 1
    /\ Len(not_downloaded_reports) = 1
    /\ RequestCount("printout", 1) = 1

\* ---- C7
ReportLines == {"Downloaded signal reports", "Not downloaded reports (due error)",
                "No signals available", "table"}
Printed(text) == \E i \in 1..Len(stdout) : stdout[i].text = text
PrintedTable(sigs) == \E i \in 1..Len(stdout) : stdout[i] = print_signals(sigs)

\* C7: once handle_download has exhausted all batches, the downloaded count
\* and table are printed iff the downloaded list is non-empty, the
\* not-downloaded table iff the not-downloaded list is non-empty, and "No
\* signals available" iff both are empty, that is iff no signal was received;
\* none of this is printed earlier.
C7_FinalReport ==
    handler = DOWNLOAD_ACTION =>
        /\ pc = "done" =>
              /\ Printed("Downloaded signal reports") <=> downloaded_reports # <<>>
              /\ downloaded_reports # <<>> =>
                    /\ PrintedTable(downloaded_reports)
                    /\ \E i \in 1..Len(stdout) :
                          stdout[i] = CountLine("Downloaded signal reports",
                                                Len(downloaded_reports))
              /\ Printed("Not downloaded reports (due error)")
                    <=> not_downloaded_reports # <<>>
              /\ not_downloaded_reports # <<>> => PrintedTable(not_downloaded_reports)
              /\ Cardinality({i \in 1..Len(stdout) : stdout[i].text = "table"}) =
                    (IF downloaded_reports # <<>> THEN 1 ELSE 0)
                    + (IF not_downloaded_reports # <<>> THEN 1 ELSE 0)
              /\ Printed("No signals available")
                    <=> (downloaded_reports = <<>> /\ not_downloaded_reports = <<>>)
              /\ Printed("No signals available") <=> arrival = <<>>
        /\ pc # "done" => \A t \in ReportLines : ~Printed(t)

C7_Witness ==
    /\ handler = DOWNLOAD_ACTION
    /\ pc = "done"
    /\ downloaded_reports = <<>>
    /\ Len(not_downloaded_reports) = 2
    /\ ~Printed("No signals available")

\* ---- C8
\* C8: at every point of handle_download the downloaded list and the
\* not-downloaded list are each a subsequence of the arrival stream.
C8_ArrivalOrder ==
    handler = DOWNLOAD_ACTION =>
        /\ IsSubseq(downloaded_reports, arrival)
        /\ IsSubseq(not_downloaded_reports, arrival)

C8_Witness ==
    /\ handler = DOWNLOAD_ACTION
    /\ Len(yielded) = 2
    /\ Len(not_downloaded_reports) = 2
    /\ not_downloaded_reports[1].status = "Pending"
    /\ not_downloaded_reports[2].status = "Done"
    /\ not_downloaded_reports = arrival

\* ---- C9
\* C9: when the write of a signal's report hits ENOSPC, the disk-full message
\* is the last thing printed and the process has exited non-zero: the signal
\* is not in the downloaded list, and its file fetch is the last request of the
\* run (no printout, fetch or listing request follows).
C9_DiskFull ==
    last_write = "ENOSPC" =>
        /\ pc = "exited"
        /\ exit_status = "nonzero"
        /\ uncaught = "none"
        /\ Last(stdout) = Line("Disk full, can't download")
        /\ signal \notin Range(downloaded_reports)
        /\ signal.id \notin Range(written)
        /\ Last(requests) = Request("get_file", signal.id, "absent", 200)
        /\ Processed = signal.id - 1
        /\ Len(downloaded_reports) + Len(not_downloaded_reports) = Processed

C9_Witness ==
    /\ last_write = "ENOSPC"
    /\ pc = "exited"
    /\ idx = 1
    /\ Len(signals_batch) = 2
    /\ signals_batch[2].status = "Done"
    /\ page < int(last_page)

\* ---- C10
\* C10 as stated: every 401 answered by the primary API, to a listing page
\* request, the create-signal request or a printout request, makes the handler
\* print the invalid-token message and exit non-zero.
C10_AsStated ==
    \A i \in 1..Len(requests) :
        (requests[i].kind \in {"list", "create", "printout"}
            /\ requests[i].status = 401) =>
                /\ i = Len(requests)
                /\ exit_status = "nonzero"
                /\ stdout # <<>>
                /\ Last(stdout) = Line(INVALUD_TOKEN_MESSAGE)

\* ---- C11
\* The per-signal failures other than disk-full and the 403: a printout status
\* outside 200, 401 and 403, a failure response on the file fetch, a write
\* error other than ENOSPC.
UnexpectedPrintout(r) == r.kind = "printout" /\ r.status \notin {200, 401, 403}
FailedFetch(r) == r.kind = "get_file" /\ r.status # 200

\* C11 as stated: in handle_download disk-full is the only per-signal condition
\* that terminates the flow; an unexpected printout status, a failed file
\* fetch and a non-ENOSPC write error are skipped and the loop goes on with the
\* next signal.
C11_AsStated ==
    handler = DOWNLOAD_ACTION =>
        /\ \A i \in 1..Len(requests) :
              (UnexpectedPrintout(requests[i]) \/ FailedFetch(requests[i])) =>
                  /\ uncaught = "none"
                  /\ Processed >= requests[i].arg
        /\ last_write = "EIO" => uncaught = "none"

\* C11 (amended): in handle_download the 403 of a printout request is the only
\* per-signal failure that is skipped. Disk-full terminates with its message;
\* an unexpected printout status, a failure response on the file fetch and a
\* non-ENOSPC write error terminate the flow too, as an uncaught exception
\* (NotImplementedError, NotImplementedError, OSError) with a non-zero exit:
\* the signal is in neither list, no later request is issued and no final
\* report is printed.
C11_OtherFailuresFatal ==
    handler = DOWNLOAD_ACTION =>
        LET fatal(exc) ==
                /\ pc = "exited"
                /\ exit_status = "nonzero"
                /\ uncaught = exc
                /\ Processed = signal.id - 1
                /\ signal \notin Range(downloaded_reports)
                /\ signal \notin Range(not_downloaded_reports)
                /\ \A i \in 1..Len(stdout) :
                      stdout[i].text \notin
                          {"Disk full, can't download", "table",
                           "Downloaded signal reports",
                           "Not downloaded reports (due error)",
                           "No signals available"}
        IN  /\ \A i \in 1..Len(requests) :
                  (UnexpectedPrintout(requests[i]) \/ FailedFetch(requests[i])) =>
                      /\ i = Len(requests)
                      /\ requests[i].arg = signal.id
                      /\ fatal("NotImplementedError")
            /\ last_write = "EIO" =>
                  /\ Last(requests) = Request("get_file", signal.id, "absent", 200)
                  /\ fatal("OSError")
            /\ last_write = "ENOSPC" =>
                  /\ uncaught = "none"
                  /\ exit_status = "nonzero"
            /\ uncaught = "none" =>
                  \A i \in 1..Len(requests) :
                      requests[i].kind = "printout" =>
                          requests[i].status \in {200, 403}

C11_Witness ==
    /\ handler = DOWNLOAD_ACTION
    /\ Len(downloaded_reports) = 1
    /\ Len(requests) >= 4
    /\ FailedFetch(Last(requests))
    /\ Last(requests).arg = 2
    /\ uncaught = "NotImplementedError"

\* ---- C12
\* A listing request for a page after the first that answered 401.
LaterPage401(r) == r.kind = "list" /\ r.arg > 1 /\ r.status = 401

\* C12: in handle_download, when the listing request for a page p > 1 answers
\* 401, the process exits non-zero with the invalid-token message as its last
\* output and without the downloaded table, the not-downloaded table or the
\* no-signals message; every signal of pages 1..p-1 has been processed, page p
\* is the last request, and no batch of page p or later was received.
C12_LaterPage401 ==
    handler = DOWNLOAD_ACTION =>
        \A i \in 1..Len(requests) :
            LaterPage401(requests[i]) =>
                /\ i = Len(requests)
                /\ pc = "exited"
                /\ exit_status = "nonzero"
                /\ uncaught = "none"
                /\ Last(stdout) = Line(INVALUD_TOKEN_MESSAGE)
                /\ \A t \in ReportLines : ~Printed(t)
                /\ yielded = Upto(requests[i].arg - 1)
                /\ Processed = Len(arrival)
                /\ Len(downloaded_reports) + Len(not_downloaded_reports)
                      = Len(arrival)
                /\ Range(written) = Ids(downloaded_reports)

C12_Witness ==
    /\ handler = DOWNLOAD_ACTION
    /\ Len(requests) >= 1
    /\ LaterPage401(Last(requests))
    /\ Last(requests).arg = 3
    /\ Len(downloaded_reports) = 1
    /\ Len(not_downloaded_reports) = 1
    /\ written # <<>>

\* ---- C13
UploadRequests == SelectSeq(requests, LAMBDA r : r.kind = "upload")
CreateRequests == SelectSeq(requests, LAMBDA r : r.kind = "create")

\* C13: in handle_upload the object-storage upload is issued at most once,
\* only after the create-signal request answered 201, and with the url and
\* post_fields of the first file descriptor of the creation response and the
\* file handle of the arguments; when the creation does not answer 201, no
\* upload request is issued.
C13_UploadAfterCreate ==
    handler = UPLOAD_ACTION =>
        /\ Len(CreateRequests) <= 1
        /\ Len(UploadRequests) <= 1
        /\ Len(UploadRequests) = 1 =>
              /\ Len(requests) = 2
              /\ requests[1].kind = "create"
              /\ requests[1].status = 201
              /\ requests[2].kind = "upload"
              /\ requests[2].arg = response_dict.files[1].url
              /\ requests[2].body.fields = response_dict.files[1].post_fields
              /\ requests[2].body.file = file_path
        /\ (Len(CreateRequests) = 1 /\ CreateRequests[1].status # 201) =>
              /\ Len(requests) = 1
              /\ pc = "exited"
              /\ response_dict = NoTarget

C13_Witness ==
    /\ handler = UPLOAD_ACTION
    /\ pc = "done"
    /\ file_path = 2
    /\ response_dict.files = <<[url |-> 1, post_fields |-> 2],
                               [url |-> 2, post_fields |-> 1]>>
    /\ Len(requests) = 2
    /\ requests[2].arg = 1
    /\ requests[2].body = [file |-> 2, fields |-> 2]

\* ---- C14
\* C14: in handle_upload a 401 on creation and a failure response of the
\* object storage are both fatal, each with its message and a non-zero exit,
\* and "Upload successful!" is printed only when the creation answered 201 and
\* the storage upload succeeded.
C14_UploadFatal ==
    handler = UPLOAD_ACTION =>
        /\ (Len(CreateRequests) = 1 /\ CreateRequests[1].status = 401) =>
              /\ stdout = <<Line(INVALUD_TOKEN_MESSAGE)>>
              /\ exit_status = "nonzero"
              /\ uncaught = "none"
        /\ (Len(UploadRequests) = 1 /\ UploadRequests[1].status # 200) =>
              /\ Last(stdout) = Line("Object store error")
              /\ exit_status = "nonzero"
              /\ uncaught = "none"
        /\ Printed("Upload successful!") <=>
              /\ Len(CreateRequests) = 1
              /\ CreateRequests[1].status = 201
              /\ Len(UploadRequests) = 1
              /\ UploadRequests[1].status = 200
        /\ Printed("Upload successful!") =>
              /\ exit_status = "zero"
              /\ ~Printed("Object store error")
              /\ ~Printed(INVALUD_TOKEN_MESSAGE)

C14_Witness ==
    /\ handler = UPLOAD_ACTION
    /\ Len(requests) = 2
    /\ requests[1].status = 201
    /\ requests[2].kind = "upload"
    /\ requests[2].status = 500
    /\ pc = "exited"
    /\ Printed("Object store error")

\* ---- C15
NotVisitedLines ==
    Cardinality({i \in 1..Len(stdout) : stdout[i].text = "Not visited by app before"})
NotVisitedAnswers ==
    Cardinality({i \in 1..Len(requests) :
                    requests[i].kind = "printout" /\ requests[i].status = 403})

\* C15: request_printout turns every status into exactly one outcome: 200
\* returns the descriptor (the file fetch of that signal follows), 401 raises
\* AccessDeniedError, 403 raises NotVisitedBeforeViaPortalError (which
\* handle_download catches), every other status raises NotImplementedError.
C15_PrintoutOutcome ==
    handler = DOWNLOAD_ACTION =>
        /\ NotVisitedLines = NotVisitedAnswers
        /\ \A i \in 1..Len(requests) :
              requests[i].kind = "printout" =>
                  LET status == requests[i].status
                      id == requests[i].arg
                      last == i = Len(requests)
                  IN  /\ status = 200 =>
                            /\ id \notin Ids(not_downloaded_reports)
                            /\ last => /\ pc = "get_file"
                                       /\ response.url = id
                                       /\ uncaught = "none"
                            /\ ~last => /\ requests[i + 1].kind = "get_file"
                                        /\ requests[i + 1].arg = id
                      /\ status = 401 =>
                            /\ last
                            /\ uncaught = "AccessDeniedError"
                            /\ id \notin Ids(not_downloaded_reports)
                      /\ status = 403 =>
                            /\ id \in Ids(not_downloaded_reports)
                            /\ last => uncaught = "none"
                            /\ RequestCount("get_file", id) = 0
                      /\ status \notin {200, 401, 403} =>
                            /\ last
                            /\ uncaught = "NotImplementedError"
                            /\ id \notin Ids(not_downloaded_reports)

C15_Witness ==
    /\ handler = DOWNLOAD_ACTION
    /\ Len(requests) = 3
    /\ requests[2].kind = "printout"
    /\ requests[2].status = 403
    /\ requests[3].kind = "printout"
    /\ requests[3].status = 404
    /\ uncaught = "NotImplementedError"

\* ---- C16
UnexpectedPage(r) == r.kind = "list" /\ r.status \notin {200, 401}

\* C16: when a listing page request answers a status other than 200 and 401,
\* the lister raises NotImplementedError: that request is the last of the run
\* (no further page, no retry of the same page), no further batch is yielded,
\* the wrapper neither catches the error nor prints the invalid-token message,
\* and the process ends on the uncaught exception without any report.
C16_UnexpectedPageStatus ==
    \A i \in 1..Len(requests) :
        UnexpectedPage(requests[i]) =>
            /\ i = Len(requests)
            /\ PagesRequested = Upto(requests[i].arg)
            /\ yielded = Upto(requests[i].arg - 1)
            /\ pc = "exited"
            /\ exit_status = "nonzero"
            /\ uncaught = "NotImplementedError"
            /\ ~Printed(INVALUD_TOKEN_MESSAGE)
            /\ ~Printed("List of signals:")
            /\ \A t \in ReportLines : ~Printed(t)

C16_Witness ==
    /\ handler = LIST_ACTION
    /\ Len(requests) = 2
    /\ requests[1].status = 200
    /\ UnexpectedPage(requests[2])
    /\ requests[2].status = 403
    /\ signals # <<>>

\* ---- C17
\* C17 as stated: every outbound HTTP request of the run (listing, create,
\* printout, file fetch, multipart upload) carries the authentication header
\* with the token the client was constructed with.
C17_AsStated ==
    \A i \in 1..Len(requests) : requests[i].token = access_token

\* C17 (amended): every request to the primary API (listing page,
\* create-signal, printout) carries the Private-Token header with the token
\* the client was constructed with; the two requests to the object storage
\* (the file fetch and the multipart upload) carry no authentication header.
C17_TokenOnApiRequests ==
    \A i \in 1..Len(requests) :
        /\ requests[i].kind \in {"list", "create", "printout"} =>
              requests[i].token = access_token
        /\ requests[i].kind \in {"get_file", "upload"} =>
              requests[i].token = "none"

C17_Witness ==
    /\ handler = DOWNLOAD_ACTION
    /\ access_token = "TOKEN_B"
    /\ Len(requests) = 3
    /\ requests[1].kind = "list"
    /\ requests[2].kind = "printout"
    /\ requests[3].kind = "get_file"
    /\ requests[2].token = "TOKEN_B"
    /\ requests[3].token = "none"

\* ---- C18
RECURSIVE Sum(_)
Sum(s) == IF s = <<>> THEN 0 ELSE Head(s) + Sum(Tail(s))

Tables == {i \in 1..Len(stdout) : stdout[i].text = "table"}

\* C18: handle_list prints the signals table exactly once, only after the
\* last page has been fetched, with the concatenation of all batches in page
\* order as its rows; when a page request fails, no table is printed.
C18_ListTable ==
    handler = LIST_ACTION =>
        /\ Cardinality(Tables) <= 1
        /\ pc = "done" => Cardinality(Tables) = 1
        /\ Tables # {} =>
              /\ pc = "done"
              /\ ListerFinished
              /\ PagesRequested = Upto(AtLeastOne(int(first_total_pages)))
              /\ \A i \in 1..Len(requests) : requests[i].status = 200
              /\ Len(arrival) = Sum(batch_sizes)
              /\ Len(batch_sizes) = Len(ListRequests)
              /\ stdout = <<Line("List of signals:"), print_signals(arrival)>>
        /\ (\E i \in 1..Len(requests) : requests[i].status # 200) => Tables = {}

C18_Witness ==
    /\ handler = LIST_ACTION
    /\ pc = "done"
    /\ batch_sizes = <<1, 0, 1>>
    /\ Len(stdout) = 2
    /\ Len(stdout[2].rows) = 2
    /\ stdout[2].rows[1].id = 1
    /\ stdout[2].rows[2].id = 2

\* ---- C20
PerSignal(r) == r.kind \in {"printout", "get_file"}
\* Number of signals received in the batches of the pages before page p.
ArrivedBefore(p) == Sum(SubSeq(batch_sizes, 1, p - 1))
Classified == Ids(downloaded_reports) \cup Ids(not_downloaded_reports)

\* In every state: once the request for a page p >= 2 is in the log, every
\* signal of the earlier pages is classified and every request made for one of
\* them precedes the page request.
C20_Order ==
    handler = DOWNLOAD_ACTION =>
        \A i \in 1..Len(requests) :
            (requests[i].kind = "list" /\ requests[i].arg >= 2) =>
                /\ 1..ArrivedBefore(requests[i].arg) \subseteq Classified
                /\ \A j \in 1..Len(requests) :
                      PerSignal(requests[j]) =>
                          (j < i <=> requests[j].arg <= ArrivedBefore(requests[i].arg))

\* In every step: at most one request is issued, with its response, and a
\* listing request is issued only from a state in which every signal received
\* so far is classified.
C20_Step ==
    /\ Len(requests') <= Len(requests) + 1
    /\ SubSeq(requests', 1, Len(requests)) = requests
    /\ (handler = DOWNLOAD_ACTION
          /\ Len(requests') = Len(requests) + 1
          /\ requests'[Len(requests')].kind = "list") =>
              /\ pc = "next_batch"
              /\ Processed = Len(arrival)
              /\ 1..Len(arrival) \subseteq Classified

\* C20: handle_download issues its requests one at a time and fetches pages
\* lazily: the listing request for page p+1 is issued only after every signal
\* of page p has been fully processed, and no printout request or file fetch
\* for a signal of page p follows the request for page p+1.
C20_LazyPages == [](C20_Order) /\ [][C20_Step]_vars

C20_Witness ==
    /\ handler = DOWNLOAD_ACTION
    /\ batch_sizes = <<1, 1>>
    /\ Len(requests) = 6
    /\ requests[1].kind = "list"
    /\ requests[2].kind = "printout"
    /\ requests[3].kind = "get_file"
    /\ requests[4].kind = "list"
    /\ requests[4].arg = 2
    /\ requests[5].kind = "printout"
    /\ requests[5].arg = 2
    /\ requests[6].kind = "get_file"


\* ---- C19
\* The stem and the extension of each base name, and the ISO-8601 text of each
\* clock reading, written out by hand.
ExpectedStem(name) ==
    CASE name = NameTestPdf -> <<"t", "e", "s", "t">>
      [] name = NameTest -> <<"t", "e", "s", "t">>
      [] name = NameTarGz -> <<"a", ".", "t", "a", "r">>
      [] name = NameHidden -> <<".", "e", "n", "v">>
      [] name = NameInDir -> <<"x">>
ExpectedExtension(name) ==
    CASE name = NameTestPdf -> <<".", "p", "d", "f">>
      [] name = NameTest -> <<>>
      [] name = NameTarGz -> <<".", "g", "z">>
      [] name = NameHidden -> <<>>
      [] name = NameInDir -> <<".", "p", "d", "f">>
ExpectedIso(t) ==
    CASE t = FrozenClock ->
            <<"2", "0", "2", "3", "-", "0", "1", "-", "0", "1", "T",
              "0", "0", ":", "0", "0", ":", "0", "0">>
      [] t = LaterClock ->
            <<"2", "0", "2", "4", "-", "1", "2", "-", "3", "1", "T",
              "2", "3", ":", "5", "9", ":", "5", "8", ".",
              "0", "0", "4", "0", "7", "0">>
TestPdfAtFrozenClock ==
    <<"t", "e", "s", "t", "-",
      "2", "0", "2", "3", "-", "0", "1", "-", "0", "1", "T",
      "0", "0", ":", "0", "0", ":", "0", "0", ".", "p", "d", "f">>

\* C19: every get_local_filename call returns stem + "-" + ISO-8601(now) +
\* extension of its base name; "test.pdf" at 2023-01-01T00:00:00 gives
\* "test-2023-01-01T00:00:00.pdf"; two calls with the same name and the same
\* clock reading return the same result; a name without an extension gives a
\* result that ends with the clock text.
C19_LocalFilename ==
    /\ \A i \in 1..Len(filename_calls) :
          LET call == filename_calls[i]
          IN  /\ call.result = ExpectedStem(call.name) \o <<"-">>
                                  \o ExpectedIso(call.now) \o ExpectedExtension(call.name)
              /\ (call.name = NameTestPdf /\ call.now = FrozenClock) =>
                    call.result = TestPdfAtFrozenClock
              /\ (call.name \in {NameTest, NameHidden}) =>
                    call.result = call.name \o <<"-">> \o ExpectedIso(call.now)
    /\ \A i, j \in 1..Len(filename_calls) :
          (filename_calls[i].name = filename_calls[j].name
              /\ filename_calls[i].now = filename_calls[j].now) =>
                  filename_calls[i].result = filename_calls[j].result
    /\ (filename_calls # <<>>) => local_file_name = Last(filename_calls).result

\* "test.pdf" was derived twice at the frozen clock reading, with a call for a
\* name without an extension in between.
C19_Witness ==
    /\ Len(filename_calls) = 3
    /\ filename_calls[1] = FilenameCall(NameTestPdf, FrozenClock, TestPdfAtFrozenClock)
    /\ filename_calls[2].name = NameTest
    /\ filename_calls[2].now = LaterClock
    /\ filename_calls[3] = filename_calls[1]

\* ---- C21
\* The file fetches of the run follow a printout request that answered 200 for
\* the same signal, and every downloaded signal has a fetch and a complete file.
C21_Order ==
    handler = DOWNLOAD_ACTION =>
        /\ \A i \in 1..Len(requests) :
              requests[i].kind = "get_file" =>
                  /\ i > 1
                  /\ requests[i - 1].kind = "printout"
                  /\ requests[i - 1].status = 200
                  /\ requests[i - 1].arg = requests[i].arg
        /\ \A k \in 1..Len(downloaded_reports) :
              LET id == downloaded_reports[k].id
              IN  /\ id \in Range(written)
                  /\ \E i \in 2..Len(requests) :
                        /\ requests[i] = Request("get_file", id, "absent", 200)
                        /\ requests[i - 1].kind = "printout"
                        /\ requests[i - 1].arg = id

\* One step of the download loop: a fetch is issued from the position after a
\* printout answered 200 and asks for the url of the descriptor in hand; the
\* downloaded list grows by the signal at hand, and only in the step in which
\* its write ends without error after its fetch answered 200.
C21_Step ==
    handler = DOWNLOAD_ACTION =>
        /\ (Len(requests') = Len(requests) + 1
               /\ requests'[Len(requests')].kind = "get_file") =>
                  /\ pc = "get_file"
                  /\ requests # <<>>
                  /\ Last(requests) = Request("printout", signal.id, "absent", 200)
                  /\ response.url = signal.id
                  /\ requests'[Len(requests')].arg = response.url
                  /\ signal.id \notin Ids(downloaded_reports)
        /\ (downloaded_reports' # downloaded_reports) =>
                  /\ pc = "write"
                  /\ last_write' = "ok"
                  /\ downloaded_reports' = Append(downloaded_reports, signal)
                  /\ written' = Append(written, signal.id)
                  /\ requests # <<>>
                  /\ Last(requests) = Request("get_file", signal.id, "absent", 200)

\* C21: for each ready signal the steps come in the order printout request,
\* file fetch, classification as downloaded: the fetch is issued only after the
\* printout request of the same signal answered 200 and asks for the url of
\* that descriptor, and the signal joins the downloaded list only once its
\* write has ended without error.
C21_StepOrder == [](C21_Order) /\ [][C21_Step]_vars

\* Two signals were downloaded one after the other, each by a printout request,
\* a fetch and a write.
C21_Witness ==
    /\ Len(downloaded_reports) = 2
    /\ Len(requests) >= 5
    /\ LET n == Len(requests)
       IN  /\ requests[n].kind = "get_file"
           /\ requests[n - 1].kind = "printout"
           /\ requests[n - 2].kind = "get_file"
           /\ requests[n - 3].kind = "printout"
           /\ requests[n].arg # requests[n - 2].arg

\* ---- C22
\* The run of handle_download has ended: the final report was printed or the
\* process exited.
DownloadEnded == pc \in {"done", "exited"}

\* The page count the page-1 response reported, once it has answered 200.
CountReported == Len(ListRequests) >= 1 /\ ListRequests[1].status = 200

\* C22 as stated: a run of handle_download eventually reaches the final report
\* or a process exit, and no page requested lies beyond the count reported on
\* page 1.
C22_AsStated ==
    /\ (handler = DOWNLOAD_ACTION) ~> DownloadEnded
    /\ []((handler = DOWNLOAD_ACTION /\ CountReported) =>
            \A i \in 1..Len(ListRequests) :
                ListRequests[i].arg <= int(first_total_pages))

\* C22 (amended): every response arriving, a run of handle_download eventually
\* reaches the final report or a process exit, and no page requested lies
\* beyond max(count, 1) for the count reported on page 1: page 1 is requested
\* before any count is known, every later page is within the count.
C22_Terminates ==
    /\ (handler = DOWNLOAD_ACTION) ~> DownloadEnded
    /\ []((handler = DOWNLOAD_ACTION /\ CountReported) =>
            \A i \in 1..Len(ListRequests) :
                /\ ListRequests[i].arg <= AtLeastOne(int(first_total_pages))
                /\ i >= 2 => ListRequests[i].arg <= int(first_total_pages))

\* A download run over three pages reached its final report with a report
\* downloaded and nothing requested after page 3.
C22_Witness ==
    /\ handler = DOWNLOAD_ACTION
    /\ pc = "done"
    /\ int(first_total_pages) = 3
    /\ PagesRequested = <<1, 2, 3>>
    /\ downloaded_reports # <<>>
    /\ Last(stdout) = print_signals(downloaded_reports)

\* ---- C23
\* C23: handle_download forwards its --new flag unchanged to the lister, and
\* every page request of the run, page 1 and every later page, carries the same
\* filter: the new parameter is on all of them when the flag is true and on none
\* of them when it is false.
C23_NewForwarded ==
    handler = DOWNLOAD_ACTION =>
        /\ new = "True" =>
              \A i \in 1..Len(ListRequests) : ListRequests[i].new = "True"
        /\ new # "True" =>
              \A i \in 1..Len(ListRequests) : ListRequests[i].new = "absent"
        /\ \A i, j \in 1..Len(ListRequests) :
              ListRequests[i].new = ListRequests[j].new

\* A download run with --new requested page 1 and two later pages, each with
\* the parameter.
C23_Witness ==
    /\ handler = DOWNLOAD_ACTION
    /\ new = "True"
    /\ PagesRequested = <<1, 2, 3>>
    /\ \A i \in 1..3 : ListRequests[i].new = "True"

====
